---- MODULE Spec2Model ----
(***************************************************************************)
(* A model of the pseudo-Hilbert scan iterators of zhang_hilbert:          *)
(* HilbertScanCore (src/src/core.rs) and ArbHilbertScanCore                *)
(* (src/src/arb.rs), instantiated as HilbertScan32 / ArbHilbertScan32.     *)
(*                                                                         *)
(* Coordinates [x, y] are the tuples <<x, y>>; axis a (0 = X, 1 = Y) of a  *)
(* tuple v is v[a + 1].  Arrays indexed from 0 in the source are functions *)
(* over 0..n-1.  A Rust panic (failed assert!, arithmetic overflow in a    *)
(* checked build, unwrap of None, unreachable!) ends the run: the variable *)
(* panic records it and no further call is made.  Unsigned subtraction is  *)
(* modelled as checked: a - b with a < b panics with "overflow".           *)
(***************************************************************************)
EXTENDS Integers, Sequences, FiniteSets, TLC

(* ------------------------------ bounds --------------------------------- *)

\* Sides of the requested rectangle range over 0..MaxSide.
MaxSide == 20

\* LevelState slots of the array-backed aliases ([LevelState<u32>; 32]).
LevelStorageLen == 32

\* Sides of the rectangle two iterators scan side by side (SpecTwin).
TwinMaxSide == 9

\* Rectangles of at most TwinFullArea cells are scanned under every
\* interleaving of the two consumers; on larger ones a consumer is at most
\* MaxLead coordinates ahead of the other.
TwinFullArea == 20

MaxLead == 3

\* Calls of next() a consumer makes after the first None (SpecTwin).
MaxNones == 2

\* Lengths 0..MaxShort of the caller-supplied buffers shorter than the array.
MaxShort == 2

\* major and minor lengths a Divider is run on by itself (SpecDivider).
MaxDivSide == 44
MaxTransSide == 12
MaxSplitSide == 64

(* --------------------------- small helpers ----------------------------- *)

RECURSIVE BitXor(_, _)
BitXor(a, b) ==
  IF a = 0 /\ b = 0 THEN 0
  ELSE ((((a % 2) + (b % 2)) % 2) + (2 * BitXor(a \div 2, b \div 2)))

RECURSIVE BitAnd(_, _)
BitAnd(a, b) ==
  IF a = 0 \/ b = 0 THEN 0
  ELSE (((a % 2) * (b % 2)) + (2 * BitAnd(a \div 2, b \div 2)))

RECURSIVE BitOr(_, _)
BitOr(a, b) ==
  IF a = 0 /\ b = 0 THEN 0
  ELSE ((IF (a % 2) + (b % 2) > 0 THEN 1 ELSE 0) + (2 * BitOr(a \div 2, b \div 2)))

RECURSIVE Pow2(_)
Pow2(k) == IF k = 0 THEN 1 ELSE 2 * Pow2(k - 1)

ShiftR(a, k) == a \div Pow2(k)

Min2(a, b) == IF a <= b THEN a ELSE b

\* `let x = v; F(x)`: F applied to the value of v, which is computed once.
With(v, F(_)) == CHOOSE y \in {F(x) : x \in {v}} : TRUE

\* Option::None of an Iterator::next result; Some(p) is the tuple p itself.
None == <<>>

(* ------------------------------ core.rs -------------------------------- *)

\* struct LevelState (Default::default()).
LevelState == [size |-> <<0, 0>>, curve_type |-> 0, progress |-> 0]

\* CURVE_ADDRESS_TABLE with the first two subblocks of type 0 exchanged.
CURVE_ADDRESS_TABLE_Exchanged ==
  [c \in 0..7 |-> <<177, 120, 75, 135, 30, 45, 225, 210>>[c + 1]]

CURVE_ADDRESS_TABLE ==
  [c \in 0..7 |-> <<180, 120, 75, 135, 30, 45, 225, 210>>[c + 1]]

CURVE_INDUCTION_TABLE ==
  [c \in 0..7 |->
     << <<1, 0, 0, 3>>, <<0, 1, 1, 2>>, <<3, 2, 2, 1>>, <<2, 3, 3, 0>>,
        <<7, 4, 4, 5>>, <<6, 5, 5, 4>>, <<5, 6, 6, 7>>, <<4, 7, 7, 6>> >>[c + 1]]

\* CURVE_INDUCTION_TABLE[c][i]
\* Induction that always takes the entry of the first subblock.
Induction_First(c, i) == CURVE_INDUCTION_TABLE[c][1]

Induction(c, i) == CURVE_INDUCTION_TABLE[c][i + 1]

curve_primary_axis(c) == c % 2

\* curve_primary_negative that says "negative" for every pattern.
curve_primary_negative_Always(c) == 2

curve_primary_negative(c) == BitAnd(BitXor(c, ShiftR(c, 1)), 2)

curve_secondary_negative_at_start(c) == BitAnd(c, 2)

curve_end_point(c) == ShiftR(CURVE_ADDRESS_TABLE[c], 6)

\* leading_zeros arithmetic of log2_floor, for x >= 1.
RECURSIVE log2_floor(_)
log2_floor(x) == IF x <= 1 THEN 0 ELSE 1 + log2_floor(x \div 2)

\* The two assert!s of num_levels_for_size.
NumLevelsAssertFails(size) == ~(size[1] > 1) \/ ~(size[2] > 1)

\* num_levels_for_size that asks for one level more.
num_levels_for_size_OneMore(size) ==
  log2_floor(Min2(size[1], size[2])) + 2

num_levels_for_size(size) == log2_floor(Min2(size[1], size[2])) + 1

\* `log2_floor(size) - 1` is a u32 subtraction.
DivisionL1Overflows(x) == log2_floor(x) < 1

\* division_l1 that gives the whole side to the l1 part.
division_l1_Whole(x) == x

division_l1(x) ==
  LET m == log2_floor(x) - 1
      mask == Pow2(m)
  IN  BitAnd(x, mask) + mask

\* ExtraSizeL1 that gives the whole side to the l1 part.
ExtraSizeL1_Whole(x) == x

\* (x + 3) >> 2 << 1
ExtraSizeL1(x) == ((x + 3) \div 4) * 2

ExtraDivisionOverflows(size) ==
  size[1] < ExtraSizeL1(size[1]) \/ size[2] < ExtraSizeL1(size[2])

\* extra_division_subblock_size without `pos ^= (curve_type == 0) as u8`.
extra_division_subblock_size_NoFlip(size, pos0, curve_type) ==
  LET size_l1 == <<ExtraSizeL1(size[1]), ExtraSizeL1(size[2])>>
      size_l0 == <<size[1] - size_l1[1], size[2] - size_l1[2]>>
      adr0 == BitAnd(pos0, 2) # 0
      adr1 == BitAnd(pos0, 1) # 0
  IN  << IF adr0 THEN size_l1[1] ELSE size_l0[1],
         IF adr1 THEN size_l1[2] ELSE size_l0[2] >>

extra_division_subblock_size(size, pos0, curve_type) ==
  LET size_l1 == <<ExtraSizeL1(size[1]), ExtraSizeL1(size[2])>>
      size_l0 == <<size[1] - size_l1[1], size[2] - size_l1[2]>>
      pos == BitXor(pos0, IF curve_type = 0 THEN 1 ELSE 0)
      adr0 == BitAnd(pos, 2) # 0
      adr1 == BitAnd(pos, 1) # 0
  IN  << IF adr0 THEN size_l1[1] ELSE size_l0[1],
         IF adr1 THEN size_l1[2] ELSE size_l0[2] >>

\* BBProgressFor that never swaps the two extents.
BBProgressFor_NoSwap(bb_curve_type, size) == size

\* bb_progress = if primary axis is Y { [size[1], size[0]] } else { size }
BBProgressFor(bb_curve_type, size) ==
  IF curve_primary_axis(bb_curve_type) # 0 THEN <<size[2], size[1]>> ELSE size

\* Either side's split `x - division_l1(x)` overflows.
SplitOverflows(size) ==
  \E a \in 1..2 : DivisionL1Overflows(size[a]) \/ size[a] < division_l1(size[a])

\* for i in 1..=num_levels - 2 { level_states[i] = ... }
RECURSIVE InitLevels(_, _, _)
InitLevels(ls, i, n) ==
  IF i > n - 2 THEN [ls |-> ls, overflow |-> FALSE]
  ELSE IF SplitOverflows(ls[i - 1].size) THEN [ls |-> ls, overflow |-> TRUE]
  ELSE With([ls EXCEPT ![i] =
               [size |-> <<ls[i - 1].size[1] - division_l1(ls[i - 1].size[1]),
                           ls[i - 1].size[2] - division_l1(ls[i - 1].size[2])>>,
                curve_type |-> i % 2,
                progress |-> 0]],
            LAMBDA ls1 : InitLevels(ls1, i + 1, n))

\* (curve_type, helper) of the first block, by the parities of the size.
FirstBlockType(size, last_curve_type) ==
  LET par == <<size[1] % 2, size[2] % 2>>
  IN  IF par = <<0, 0>> THEN [curve_type |-> last_curve_type, helper |-> FALSE]
      ELSE IF par = <<0, 1>> THEN [curve_type |-> 1, helper |-> TRUE]
      ELSE [curve_type |-> 0, helper |-> TRUE]

\* A value of struct HilbertScanCore that is never stepped (construction
\* panicked before the struct was built).
NoCore ==
  [size |-> <<0, 0>>, num_levels |-> 0, last_level |-> 0,
   level_states |-> [i \in 0..(LevelStorageLen - 1) |-> LevelState],
   position |-> <<0, 0>>, bb_progress |-> <<0, 0>>,
   bb_secondary_neg |-> FALSE, bb_curve_type |-> 0, bb_end |-> 0,
   bb_helper_row |-> FALSE, done |-> FALSE]

\* Failed that swallows the panic: the caller gets an engine back.
Failed_Silent(storage, msg) ==
  [e |-> [NoCore EXCEPT !.level_states = storage], panic |-> ""]

Failed(storage, msg) ==
  [e |-> [NoCore EXCEPT !.level_states = storage], panic |-> msg]

\* Lines 281-334: the set-up of the scan of the first block.  ls holds the
\* levels 0..num_levels-2 written by the loop; last_size0 is the size of the
\* last of them, less the helper row.
FirstBlock(size, num_levels, ls, curve_type, helper, last_size0) ==
  LET last_level0 == num_levels - 2
      extra == last_size0[1] >= 3 /\ last_size0[2] >= 3
  IN
  IF extra /\ ExtraDivisionOverflows(last_size0) THEN Failed(ls, "overflow")
  ELSE
  With(IF extra
       THEN extra_division_subblock_size(last_size0, 0, curve_type)
       ELSE last_size0,
  LAMBDA last_size :
  With(IF extra THEN Induction(curve_type, 0) ELSE curve_type,
  LAMBDA bb_curve_type :
    [e |-> [size |-> size,
            num_levels |-> num_levels,
            last_level |-> IF extra THEN last_level0 + 1 ELSE last_level0,
            level_states |->
              IF extra
              THEN [ls EXCEPT ![last_level0].size = last_size0,
                              ![last_level0].curve_type = curve_type,
                              ![last_level0].progress = 0,
                              ![last_level0 + 1].size = last_size]
              ELSE [ls EXCEPT ![last_level0].size = last_size0,
                              ![last_level0].curve_type = curve_type],
            position |-> <<0, 0>>,
            bb_progress |-> BBProgressFor(bb_curve_type, last_size),
            bb_secondary_neg |->
              curve_secondary_negative_at_start(bb_curve_type) # 0,
            bb_curve_type |-> bb_curve_type,
            bb_end |-> curve_end_point(bb_curve_type),
            bb_helper_row |-> helper,
            done |-> FALSE],
     panic |-> ""]))

\* TopLevel that leaves `progress` of slot 0 as it finds it in the buffer.
TopLevel_KeepProgress(storage, size) ==
  [storage EXCEPT ![0].size = size, ![0].curve_type = 0]

\* level_states[0] = LevelState { size, curve_type: 0, progress: 0 }
TopLevel(storage, size) ==
  [storage EXCEPT ![0] = [size |-> size, curve_type |-> 0, progress |-> 0]]

\* HilbertScanCore::with_level_state_storage.  storage is the caller's
\* LevelSt, a function over 0..len-1.
with_level_state_storage(storage, size) ==
  IF NumLevelsAssertFails(size) THEN Failed(storage, "assert")
  ELSE
  With(num_levels_for_size(size), LAMBDA num_levels :
    IF num_levels > Cardinality(DOMAIN storage) THEN Failed(storage, "slice")
    ELSE
    With(InitLevels(TopLevel(storage, size), 1, num_levels),
    LAMBDA il :
      IF il.overflow THEN Failed(storage, "overflow")
      ELSE
      With(FirstBlockType(size, (num_levels - 2) % 2), LAMBDA fb :
        LET pax == curve_primary_axis(fb.curve_type) + 1
            last_size1 == il.ls[num_levels - 2].size
        IN  IF fb.helper /\ last_size1[pax] < 1 THEN Failed(storage, "overflow")
            ELSE With(IF fb.helper
                      THEN [last_size1 EXCEPT ![pax] = @ - 1]
                      ELSE last_size1,
                 LAMBDA last_size0 :
                   FirstBlock(size, num_levels, il.ls, fb.curve_type,
                              fb.helper, last_size0)))))

(* ---------------------- HilbertScanCore::next -------------------------- *)

\* The outcome of one call: the engine afterwards, the returned Option, and
\* the panic message ("" when the call returned).
Returned(e, ret) == [e |-> e, ret |-> ret, panic |-> ""]

Panicked(e, msg) == [e |-> e, ret |-> None, panic |-> msg]

\* `*pos = *pos - T::one()` / `*pos = *pos + T::one()` on one axis (0 or 1).
MoveOverflows(position, axis, negative) == negative /\ position[axis + 1] < 1

\* Move that ignores the direction and always increments.
Move_AlwaysForward(position, axis, negative) ==
  [position EXCEPT ![axis + 1] = @ + 1]

Move(position, axis, negative) ==
  [position EXCEPT ![axis + 1] = IF negative THEN @ - 1 ELSE @ + 1]

SCANNING_TYPE ==
  [s \in 0..1 |->
     << \* Move right/up
        << <<0, 1>>, <<6, 6>>, <<7, 7>>, <<3, 2>> >>,
        \* Move left/down
        << <<1, 0>>, <<5, 5>>, <<4, 4>>, <<2, 3>> >> >>[s + 1]]

\* ScanningType that reads the row of the bottom-left entry corner whatever
\* the corner the block is entered at.
ScanningType_IgnoreEntry(next_dir_sign, next_bb_enter, next_dir) ==
  SCANNING_TYPE[next_dir_sign][1][next_dir + 1]

\* SCANNING_TYPE[next_dir_sign][next_bb_enter][next_dir]
ScanningType(next_dir_sign, next_bb_enter, next_dir) ==
  SCANNING_TYPE[next_dir_sign][next_bb_enter + 1][next_dir + 1]

\* ((size[0] & T::zero()) << 1) | (size[1] & T::zero())
EvenFlags(size) == BitOr(BitAnd(size[1], 0) * 2, BitAnd(size[2], 0))

\* loop { level_states[i].progress += 1; ... } up to the level that still
\* has a subblock left, or to the exhaustion of level 0.
RECURSIVE Ascend(_, _)
Ascend(ls, i) ==
  With([ls EXCEPT ![i].progress = @ + 1], LAMBDA ls1 :
    IF ls1[i].progress = 4
    THEN IF i = 0 THEN [ls |-> ls1, i |-> 0, exhausted |-> TRUE]
         ELSE Ascend(ls1, i - 1)
    ELSE [ls |-> ls1, i |-> i, exhausted |-> FALSE])

\* adr ^ (adr >> 2) for adr = CURVE_ADDRESS_TABLE[curve_type] >> shift (u8).
AdrRel(curve_type, shift) ==
  BitXor(ShiftR(CURVE_ADDRESS_TABLE[curve_type], shift),
         ShiftR(CURVE_ADDRESS_TABLE[curve_type], shift + 2))

\* The size of subblock `adr` of a block of size prev_size (lines 523-530).
SubblockSize(prev_size, adr) ==
  << IF BitAnd(adr, 2) # 0
     THEN division_l1(prev_size[1])
     ELSE prev_size[1] - division_l1(prev_size[1]),
     IF BitAnd(adr, 1) # 0
     THEN division_l1(prev_size[2])
     ELSE prev_size[2] - division_l1(prev_size[2]) >>

\* ChildLevel that starts the child at its second subblock.
ChildLevel_SkipFirst(ls, i) ==
  [size |-> SubblockSize(
              ls[i].size,
              ShiftR(CURVE_ADDRESS_TABLE[ls[i].curve_type],
                     ls[i].progress * 2)),
   curve_type |-> Induction(ls[i].curve_type, ls[i].progress),
   progress |-> 1]

\* LevelState { size, curve_type: CURVE_INDUCTION_TABLE[..][progress],
\*              progress: 0 } written to level_states[i + 1]
ChildLevel(ls, i) ==
  [size |-> SubblockSize(
              ls[i].size,
              ShiftR(CURVE_ADDRESS_TABLE[ls[i].curve_type],
                     ls[i].progress * 2)),
   curve_type |-> Induction(ls[i].curve_type, ls[i].progress),
   progress |-> 0]

\* while i < num_levels - 2 { ... level_states[i + 1] = ...; i += 1 }
RECURSIVE Descend(_, _, _)
Descend(ls, i, n) ==
  IF ~(i < n - 2) THEN [ls |-> ls, overflow |-> FALSE]
  ELSE IF SplitOverflows(ls[i].size) THEN [ls |-> ls, overflow |-> TRUE]
  ELSE
  With([ls EXCEPT ![i + 1] = ChildLevel(ls, i)],
       LAMBDA ls1 : Descend(ls1, i + 1, n))

\* "the location (left, right, up or down) of the next block"
RECURSIVE NextBlockDir(_, _)
NextBlockDir(ls, i) ==
  IF ls[i].progress = 3
  THEN IF i = 0
       THEN [next_dir |-> 0, next_dir_sign |-> 0, assert_ok |-> TRUE]
       ELSE NextBlockDir(ls, i - 1)
  ELSE
  With(ShiftR(CURVE_ADDRESS_TABLE[ls[i].curve_type], ls[i].progress * 2),
  LAMBDA adr :
  With(BitXor(adr, ShiftR(adr, 2)), LAMBDA adr_rel :
    [next_dir |-> BitAnd(adr_rel, 1),
     next_dir_sign |-> IF BitAnd(BitAnd(adr, adr_rel), 3) # 0 THEN 1 ELSE 0,
     assert_ok |-> BitAnd(adr_rel, 3) \in {1, 2}]))

\* The three debug_assert!s on a freshly installed bb_progress.
LeafAssertsHold(bb_progress) ==
  /\ bb_progress[1] % 2 = 0
  /\ bb_progress[1] # 0
  /\ bb_progress[2] # 0

\* Lines 498-511 and 660-674: install the leaf of pattern bb_curve_type and
\* extent size as the current basic block, and return.
EnterLeaf(e, ls, last_level, bb_curve_type, size, position) ==
  IF ~LeafAssertsHold(BBProgressFor(bb_curve_type, size))
  THEN Panicked(e, "debug_assert")
  ELSE Returned([e EXCEPT !.level_states = ls,
                          !.bb_secondary_neg =
                             curve_secondary_negative_at_start(bb_curve_type) # 0,
                          !.bb_curve_type = bb_curve_type,
                          !.bb_end = curve_end_point(bb_curve_type),
                          !.bb_progress = BBProgressFor(bb_curve_type, size),
                          !.last_level = last_level],
                position)

\* `if i == num_levels - 2 { ... }`: the move between two extra-subdivided
\* subblocks of the same block.  e carries the moved position and the
\* incremented progress.
NextExtraSubblock(e, i, position) ==
  LET level == e.level_states[i]
  IN
  IF ExtraDivisionOverflows(level.size) THEN Panicked(e, "overflow")
  ELSE
  With(extra_division_subblock_size(
         level.size,
         ShiftR(CURVE_ADDRESS_TABLE[level.curve_type], level.progress * 2),
         level.curve_type),
  LAMBDA size :
    EnterLeaf(e, [e.level_states EXCEPT ![i + 1].size = size], e.last_level,
              Induction(level.curve_type, level.progress), size, position))

\* Lines 603-641: the scanning pattern of the new block ls[i].
NewBlockType(ls, i, even_flags, next_bb_enter) ==
  IF even_flags = 0
  THEN With(NextBlockDir(ls, i - 1), LAMBDA nd :
         [type |-> ScanningType(nd.next_dir_sign, next_bb_enter, nd.next_dir),
          panic |-> IF nd.assert_ok THEN "" ELSE "debug_assert"])
  ELSE IF even_flags = 1 THEN [type |-> 6, panic |-> ""]
  ELSE IF even_flags = 2 THEN [type |-> 7, panic |-> ""]
  ELSE [type |-> 0, panic |-> "unreachable"]

\* Lines 643-674: the optional extra subdivision of the new block ls[i] of
\* pattern type0, and the installation of its first leaf.
NewBlock(e, ls, i, type0, next_bb_enter, position) ==
  LET size0 == ls[i].size
      extra == size0[1] >= 3 /\ size0[2] >= 3
  IN
  IF ~extra THEN EnterLeaf(e, ls, i, type0, size0, position)
  ELSE IF ExtraDivisionOverflows(size0) THEN Panicked(e, "overflow")
  ELSE
  With(extra_division_subblock_size(size0, next_bb_enter, type0),
  LAMBDA size :
    EnterLeaf(e,
              [ls EXCEPT ![i].progress = 0,
                         ![i].curve_type = type0,
                         ![i + 1].size = size],
              i + 1, Induction(type0, 0), size, position))

\* Lines 514-674: descend from level i0 to a new block, choose its scanning
\* pattern and enter it.
NextBlock(e, i0, next_bb_enter, position) ==
  With(Descend(e.level_states, i0, e.num_levels), LAMBDA d :
    IF d.overflow THEN Panicked(e, "overflow")
    ELSE
    With(NewBlockType(d.ls, e.num_levels - 2,
                      EvenFlags(d.ls[e.num_levels - 2].size), next_bb_enter),
    LAMBDA t :
      IF t.panic # "" THEN Panicked(e, t.panic)
      ELSE NewBlock(e, d.ls, e.num_levels - 2, t.type, next_bb_enter,
                    position)))

\* Lines 450-483: level i (in ls) has a subblock left; move the cursor into
\* it and continue there.  e has bb_secondary_neg flipped by the zigzag.
MoveToNextBlock(e, ls, i, position) ==
  LET level == ls[i]
      pri_axis == curve_primary_axis(e.bb_curve_type)
      sec_axis == 1 - pri_axis
  IN
  IF level.progress * 2 < 2 THEN Panicked(e, "overflow")
  ELSE
  With(AdrRel(level.curve_type, (level.progress * 2) - 2), LAMBDA adr_rel :
    LET is_adr_rel_primary == BitAnd(ShiftR(adr_rel, sec_axis), 1) # 0
        axis == IF is_adr_rel_primary THEN pri_axis ELSE sec_axis
        negative == IF is_adr_rel_primary
                    THEN curve_primary_negative(e.bb_curve_type) # 0
                    ELSE ~e.bb_secondary_neg
    IN
    IF BitAnd(adr_rel, 3) \notin {1, 2} THEN Panicked(e, "debug_assert")
    ELSE IF MoveOverflows(e.position, axis, negative)
    THEN Panicked(e, "overflow")
    ELSE
    With([e EXCEPT !.level_states = ls,
                   !.position = Move(e.position, axis, negative)],
    LAMBDA e2 :
      IF i = e.num_levels - 2 THEN NextExtraSubblock(e2, i, position)
      ELSE With(BitXor(e.bb_end, BitAnd(adr_rel, 3)), LAMBDA next_bb_enter :
             NextBlock(e2, i, next_bb_enter, position))))

\* Lines 436-448: walk up from the completed block.
FindNextBlock(e, position) ==
  With(Ascend(e.level_states, e.last_level - 1), LAMBDA a :
    IF a.exhausted
    THEN Returned([e EXCEPT !.level_states = a.ls, !.done = TRUE], position)
    ELSE MoveToNextBlock(e, a.ls, a.i, position))

\* HelperRowDue that does not wait for the fourth subblock.
HelperRowDue_Early(e) == e.bb_helper_row

\* Lines 395-429: whether the helper row is due, and its installation.
HelperRowDue(e) ==
  /\ e.bb_helper_row
  /\ IF e.last_level = e.num_levels - 2 THEN TRUE
     ELSE e.level_states[e.num_levels - 2].progress = 3

\* HelperRow without `self.position[pri_axis] = self.position[pri_axis] + 1`.
HelperRow_NoStep(e, position) ==
  LET level == e.level_states[e.num_levels - 2]
      sec_axis == 1 - curve_primary_axis(level.curve_type)
  IN  Returned([e EXCEPT !.bb_end = 3,
                         !.bb_curve_type = level.curve_type,
                         !.bb_secondary_neg = FALSE,
                         !.bb_progress = <<1, level.size[sec_axis + 1]>>,
                         !.bb_helper_row = FALSE,
                         !.last_level = e.num_levels - 2],
               position)

HelperRow(e, position) ==
  LET level == e.level_states[e.num_levels - 2]
      pri_axis == curve_primary_axis(level.curve_type)
      sec_axis == 1 - pri_axis
      sec_width == level.size[sec_axis + 1]
  IN  Returned([e EXCEPT !.bb_end = 3,
                         !.bb_curve_type = level.curve_type,
                         !.bb_secondary_neg = FALSE,
                         !.bb_progress = <<1, sec_width>>,
                         !.bb_helper_row = FALSE,
                         !.position = Move(e.position, pri_axis, FALSE),
                         !.last_level = e.num_levels - 2],
               position)

\* BlockComplete that never scans the helper row.
BlockComplete_NoHelperRow(e, position) ==
  IF e.last_level = 0 THEN Returned([e EXCEPT !.done = TRUE], position)
  ELSE FindNextBlock(e, position)

\* Lines 395-675: everything after `pri == 0`.
BlockComplete(e, position) ==
  IF HelperRowDue(e) THEN HelperRow(e, position)
  ELSE IF e.last_level = 0 THEN Returned([e EXCEPT !.done = TRUE], position)
  ELSE FindNextBlock(e, position)

\* <HilbertScanCore as Iterator>::next
next(e) ==
  IF e.done THEN Returned(e, None)
  ELSE
  LET position == e.position
      pri == e.bb_progress[1]
      sec == e.bb_progress[2]
      pri_axis == curve_primary_axis(e.bb_curve_type)
      sec_axis == 1 - pri_axis
      sec_width == e.level_states[e.last_level].size[sec_axis + 1]
      pri_neg == curve_primary_negative(e.bb_curve_type) # 0
  IN
  IF sec < 1 THEN Panicked(e, "overflow")
  ELSE IF sec - 1 # 0
  THEN IF MoveOverflows(e.position, sec_axis, e.bb_secondary_neg)
       THEN Panicked(e, "overflow")
       ELSE Returned([e EXCEPT !.position =
                                 Move(e.position, sec_axis, e.bb_secondary_neg),
                               !.bb_progress = <<pri, sec - 1>>],
                     position)
  ELSE IF pri < 1 THEN Panicked(e, "overflow")
  ELSE IF pri - 1 # 0
  THEN IF MoveOverflows(e.position, pri_axis, pri_neg)
       THEN Panicked(e, "overflow")
       ELSE Returned([e EXCEPT !.bb_secondary_neg = ~e.bb_secondary_neg,
                               !.position = Move(e.position, pri_axis, pri_neg),
                               !.bb_progress = <<pri - 1, sec_width>>],
                     position)
  ELSE With([e EXCEPT !.bb_secondary_neg = ~e.bb_secondary_neg], LAMBDA e1 :
         BlockComplete(e1, e.position))

(* ------------------------------- arb.rs -------------------------------- *)

\* Option<T> of Divider::next.
NoWidth == [some |-> FALSE, width |-> 0]

SomeWidth(w) == [some |-> TRUE, width |-> w]

\* division_count panics on `major / minor` with minor = 0, and on the
\* subtractions d1, d2 if they overflow.
DivisionCountPanics(major, minor) ==
  /\ major > minor
  /\ \/ minor = 0
     \/ (major \div (major \div minor)) < minor
     \/ minor < (major \div ((major \div minor) + 1))

division_count(major, minor) ==
  IF major <= minor THEN 1
  ELSE LET k == major \div minor
           w1 == major \div k
           w2 == major \div (k + 1)
           d1 == w1 - minor
           d2 == minor - w2
       IN  IF d1 < d2 THEN k ELSE k + 1

\* DividerWidth that divides by count even when count is 1.
DividerWidth_AlwaysDivide(remaining, minor) ==
  With(division_count(remaining, minor), LAMBDA count :
    IF (remaining \div count) % 2 # 0
    THEN (remaining \div count) + 1
    ELSE remaining \div count)

\* DividerWidth without `w = w + T::one()` for an odd quotient.
DividerWidth_NoRounding(remaining, minor) ==
  With(division_count(remaining, minor), LAMBDA count :
    IF count = 1 THEN remaining ELSE remaining \div count)

\* The width Divider::next cuts off a non-zero remaining length.
DividerWidth(remaining, minor) ==
  With(division_count(remaining, minor), LAMBDA count :
    IF count = 1 THEN remaining
    ELSE IF (remaining \div count) % 2 # 0
    THEN (remaining \div count) + 1
    ELSE remaining \div count)

\* divider_next that starts over once it has reported the end.
divider_next_Refill(d) ==
  IF d.remaining = 0
  THEN [d |-> [d EXCEPT !.remaining = d.minor], ret |-> NoWidth, panic |-> ""]
  ELSE IF DivisionCountPanics(d.remaining, d.minor)
  THEN [d |-> d, ret |-> NoWidth, panic |-> "arith"]
  ELSE With(DividerWidth(d.remaining, d.minor), LAMBDA width :
         IF d.remaining < width
         THEN [d |-> d, ret |-> NoWidth, panic |-> "overflow"]
         ELSE [d |-> [d EXCEPT !.remaining = @ - width],
               ret |-> SomeWidth(width), panic |-> ""])

\* Divider::next: the divider afterwards and the returned Option.
divider_next(d) ==
  IF d.remaining = 0 THEN [d |-> d, ret |-> NoWidth, panic |-> ""]
  ELSE IF DivisionCountPanics(d.remaining, d.minor)
  THEN [d |-> d, ret |-> NoWidth, panic |-> "arith"]
  ELSE With(DividerWidth(d.remaining, d.minor), LAMBDA width :
         IF d.remaining < width
         THEN [d |-> d, ret |-> NoWidth, panic |-> "overflow"]
         ELSE [d |-> [d EXCEPT !.remaining = @ - width],
               ret |-> SomeWidth(width), panic |-> ""])

\* The fields of struct ArbHilbertScanCore other than `inner`.
NoArb ==
  [major_axis |-> 0, divider |-> [remaining |-> 0, minor |-> 0],
   pos |-> 0, len |-> 0]

\* ArbHilbertScanCore::with_level_state_storage: the wrapper's own fields
\* (a), the inner engine (e) and the panic, if any.
arb_with_level_state_storage(storage, size) ==
  IF size[1] = 0 \/ size[2] = 0
  THEN With(with_level_state_storage(storage, size), LAMBDA c :
         [a |-> NoArb, e |-> c.e, panic |-> c.panic])
  ELSE
  LET major_axis == IF size[2] > size[1] THEN 1 ELSE 0
  IN
  With(divider_next([remaining |-> size[major_axis + 1],
                     minor |-> size[(1 - major_axis) + 1]]),
  LAMBDA dn :
    IF dn.panic # ""
    THEN [a |-> NoArb, e |-> Failed(storage, "").e, panic |-> dn.panic]
    ELSE
    LET len == IF dn.ret.some THEN dn.ret.width ELSE 0
    IN
    With(with_level_state_storage(storage, <<len, dn.d.minor>>), LAMBDA c :
      [a |-> [major_axis |-> major_axis, divider |-> dn.d,
              pos |-> 0, len |-> len],
       e |-> c.e, panic |-> c.panic]))

\* to_global without the swap for a vertical major axis.
to_global_NoSwap(a, p) == <<p[1] + a.pos, p[2]>>

\* ArbHilbertScanCore::to_global
to_global(a, p) ==
  IF a.major_axis # 0 THEN <<p[2], p[1] + a.pos>> ELSE <<p[1] + a.pos, p[2]>>

\* NextPart without `self.pos = self.pos + self.len`.
NextPart_KeepPos(a, e, next_len) ==
  With(with_level_state_storage(e.level_states, <<next_len, a.divider.minor>>),
  LAMBDA c :
    IF c.panic # "" THEN [a |-> a, e |-> c.e, ret |-> None, panic |-> c.panic]
    ELSE
    With([a EXCEPT !.len = next_len], LAMBDA a2 :
    With(next(c.e), LAMBDA r2 :
      IF r2.panic # ""
      THEN [a |-> a2, e |-> r2.e, ret |-> None, panic |-> r2.panic]
      ELSE IF r2.ret = None
      THEN [a |-> a2, e |-> r2.e, ret |-> None, panic |-> "unwrap"]
      ELSE [a |-> a2, e |-> r2.e, ret |-> to_global(a2, r2.ret), panic |-> ""])))

\* Lines 124-134: the inner engine e is exhausted and the divider (already
\* advanced, in a) has cut off a part of length next_len.
NextPart(a, e, next_len) ==
  With(with_level_state_storage(e.level_states, <<next_len, a.divider.minor>>),
  LAMBDA c :
    IF c.panic # "" THEN [a |-> a, e |-> c.e, ret |-> None, panic |-> c.panic]
    ELSE
    With([a EXCEPT !.pos = a.pos + a.len, !.len = next_len], LAMBDA a2 :
    With(next(c.e), LAMBDA r2 :
      IF r2.panic # ""
      THEN [a |-> a2, e |-> r2.e, ret |-> None, panic |-> r2.panic]
      ELSE IF r2.ret = None
      THEN [a |-> a2, e |-> r2.e, ret |-> None, panic |-> "unwrap"]
      ELSE [a |-> a2, e |-> r2.e, ret |-> to_global(a2, r2.ret), panic |-> ""])))

\* <ArbHilbertScanCore as Iterator>::next, on the wrapper's fields a and
\* its inner engine e.
arb_next(a, e) ==
  With(next(e), LAMBDA r :
    IF r.panic # "" THEN [a |-> a, e |-> r.e, ret |-> None, panic |-> r.panic]
    ELSE IF r.ret # None
    THEN [a |-> a, e |-> r.e, ret |-> to_global(a, r.ret), panic |-> ""]
    ELSE
    With(divider_next(a.divider), LAMBDA dn :
      IF dn.panic # "" \/ ~dn.ret.some
      THEN [a |-> [a EXCEPT !.divider = dn.d], e |-> r.e, ret |-> None,
            panic |-> dn.panic]
      ELSE With([a EXCEPT !.divider = dn.d], LAMBDA a1 :
             NextPart(a1, r.e, dn.ret.width))))

(* --------------------------- the state machine ------------------------- *)

VARIABLES
  size,    \* the size [W, H] the iterator was constructed with
  core,    \* the HilbertScanCore (the wrapper's `inner` under SpecArb)
  arb,     \* the other fields of the ArbHilbertScanCore (SpecArb only)
  out,     \* the coordinates returned so far, in order
  ret,     \* the result of the latest next(): None or a coordinate;
           \* NotCalled before the first call
  panic,   \* "" or the panic that ended the run
  widths,  \* the widths Divider::next has returned so far, in order
  twin     \* two iterators of the same size side by side (SpecTwin only)

vars == <<size, core, arb, out, ret, panic, widths, twin>>

NotCalled == <<-1>>

\* Sizes the crate documentation runs the iterators on.
DocSizes == {<<11, 42>>, <<40, 7>>}

Sizes == ((0..MaxSide) \X (0..MaxSide))

\* LevelSt::default() of [LevelState<u32>; 32].
DefaultStorage == [i \in 0..(LevelStorageLen - 1) |-> LevelState]

\* The value of twin outside SpecTwin.
NoTwin == [kind |-> "", inst |-> <<>>]

\* The width the constructor of the wrapper takes from its Divider
\* (arb.rs line 75), if it takes one.
FirstWidths(sz) ==
  IF sz[1] = 0 \/ sz[2] = 0 THEN <<>>
  ELSE LET major_axis == IF sz[2] > sz[1] THEN 1 ELSE 0
       IN  With(divider_next([remaining |-> sz[major_axis + 1],
                              minor |-> sz[(1 - major_axis) + 1]]),
           LAMBDA dn : IF dn.panic = "" /\ dn.ret.some
                       THEN <<dn.ret.width>> ELSE <<>>)

\* HilbertScan32::new(size)
Init ==
  \E sz \in Sizes :
    \E c \in {with_level_state_storage(DefaultStorage, sz)} :
        /\ size = sz
        /\ core = c.e
        /\ arb = NoArb
        /\ out = <<>>
        /\ ret = NotCalled
        /\ panic = c.panic
        /\ widths = <<>>
        /\ twin = NoTwin

\* One call of HilbertScanCore::next by the consumer.
ScanNext ==
  /\ panic = ""
  /\ \E r \in {next(core)} :
         /\ core' = r.e
         /\ ret' = r.ret
         /\ panic' = r.panic
         /\ out' = IF r.panic = "" /\ r.ret # None THEN Append(out, r.ret) ELSE out
  /\ UNCHANGED <<size, arb, widths, twin>>

Next == ScanNext

Spec == Init /\ [][Next]_vars

\* The consumer keeps calling next() (a `for` loop over the iterator).
FairSpec == Spec /\ WF_vars(ScanNext)

\* ArbHilbertScan32::new(size)
ArbInit ==
  \E sz \in Sizes \cup DocSizes :
    \E c \in {arb_with_level_state_storage(DefaultStorage, sz)} :
        /\ size = sz
        /\ core = c.e
        /\ arb = c.a
        /\ out = <<>>
        /\ ret = NotCalled
        /\ panic = c.panic
        /\ widths = FirstWidths(sz)
        /\ twin = NoTwin

\* One call of ArbHilbertScanCore::next by the consumer.
ArbScanNext ==
  /\ panic = ""
  /\ \E r \in {arb_next(arb, core)} :
         /\ core' = r.e
         /\ arb' = r.a
         /\ ret' = r.ret
         /\ panic' = r.panic
         /\ out' = IF r.panic = "" /\ r.ret # None THEN Append(out, r.ret) ELSE out
         /\ widths' = IF r.a.divider # arb.divider
                       THEN Append(widths,
                                   arb.divider.remaining - r.a.divider.remaining)
                       ELSE widths
  /\ UNCHANGED <<size, twin>>

ArbNextRel == ArbScanNext

SpecArb == ArbInit /\ [][ArbNextRel]_vars

(* ----------------------- two iterators side by side -------------------- *)

\* A caller-supplied LevelSt of len slots (a Vec or a shorter array).
ShortStorage(len) == [i \in 0..(len - 1) |-> LevelState]

\* A buffer whose slots hold arbitrary values: the elements "do not have
\* to be initialized".
JunkStorage(sz, curve_type, progress) ==
  [i \in 0..(LevelStorageLen - 1) |->
     [size |-> sz, curve_type |-> curve_type, progress |-> progress]]

\* The buffer a previous engine over sz leaves behind
\* (HilbertScanCore::into_level_states, as in arb.rs line 124).
StaleStorage(sz) == with_level_state_storage(DefaultStorage, sz).e.level_states

TwinStorages ==
  {DefaultStorage}
    \cup {ShortStorage(len) : len \in 0..MaxShort}
    \cup {JunkStorage(<<9, 1>>, 7, 3), JunkStorage(<<0, 6>>, 2, 1)}
    \cup {StaleStorage(<<7, 6>>), StaleStorage(<<12, 13>>)}

TwinSizes == (0..TwinMaxSide) \X (0..TwinMaxSide)

\* One iterator: HilbertScanCore::with_level_state_storage(storage, sz) for
\* kind "core", ArbHilbertScanCore::with_level_state_storage for "arb".
\* out, ret and nones are the consumer's record of its calls.
TwinConstruct(kind, storage, sz) ==
  IF kind = "core"
  THEN With(with_level_state_storage(storage, sz), LAMBDA c :
         [core |-> c.e, arb |-> NoArb, out |-> <<>>, ret |-> NotCalled,
          panic |-> c.panic, storage |-> storage, nones |-> 0])
  ELSE With(arb_with_level_state_storage(storage, sz), LAMBDA c :
         [core |-> c.e, arb |-> c.a, out |-> <<>>, ret |-> NotCalled,
          panic |-> c.panic, storage |-> storage, nones |-> 0])

\* One call of next() on the iterator it.
TwinCall(kind, it) ==
  With(IF kind = "core"
       THEN With(next(it.core), LAMBDA r :
              [a |-> it.arb, e |-> r.e, ret |-> r.ret, panic |-> r.panic])
       ELSE arb_next(it.arb, it.core),
  LAMBDA r :
    [it EXCEPT !.core = r.e,
               !.arb = r.a,
               !.ret = r.ret,
               !.panic = r.panic,
               !.out = IF r.panic = "" /\ r.ret # None
                       THEN Append(@, r.ret) ELSE @,
               !.nones = IF r.panic = "" /\ r.ret = None THEN @ + 1 ELSE @])

\* Two iterators of the same kind and size: the first from new(size), the
\* second on a buffer the caller supplies.
TwinInit ==
  \E sz \in TwinSizes, kind \in {"core", "arb"}, storage \in TwinStorages :
    /\ size = sz
    /\ twin = [kind |-> kind,
               inst |-> <<TwinConstruct(kind, DefaultStorage, sz),
                          TwinConstruct(kind, storage, sz)>>]
    /\ core = NoCore
    /\ arb = NoArb
    /\ out = <<>>
    /\ ret = NotCalled
    /\ panic = ""
    /\ widths = <<>>

\* The consumer of iterator i makes another call.
TwinMayCall(i) ==
  /\ twin.inst[i].panic = ""
  /\ twin.inst[i].nones < MaxNones
  /\ \/ size[1] * size[2] <= TwinFullArea
     \/ Len(twin.inst[i].out) - Len(twin.inst[3 - i].out) < MaxLead

\* TwinScanNext with the level states in a buffer both iterators share.
TwinScanNext_SharedStorage(i) ==
  /\ TwinMayCall(i)
  /\ \E it \in {TwinCall(twin.kind, twin.inst[i])} :
       twin' = [twin EXCEPT !.inst[i] = it,
                            !.inst[3 - i].core.level_states =
                               it.core.level_states]
  /\ UNCHANGED <<size, core, arb, out, ret, panic, widths>>

\* The consumer of iterator i calls next() on it.
TwinScanNext(i) ==
  /\ TwinMayCall(i)
  /\ \E it \in {TwinCall(twin.kind, twin.inst[i])} :
       twin' = [twin EXCEPT !.inst[i] = it]
  /\ UNCHANGED <<size, core, arb, out, ret, panic, widths>>

TwinNext == \E i \in 1..2 : TwinScanNext(i)

SpecTwin == TwinInit /\ [][TwinNext]_vars

(* ----------------- a tall rectangle and its transpose ------------------ *)

TransposedSizes ==
  {sz \in (0..MaxTransSide) \X (0..MaxTransSide) : sz[1] < sz[2]}

\* Two wrappers built by new(): the first over [W, H] with W < H, the
\* second over [H, W].
TransposedInit ==
  \E sz \in TransposedSizes :
    /\ size = sz
    /\ twin = [kind |-> "arb",
               inst |-> <<TwinConstruct("arb", DefaultStorage, sz),
                          TwinConstruct("arb", DefaultStorage,
                                        <<sz[2], sz[1]>>)>>]
    /\ core = NoCore
    /\ arb = NoArb
    /\ out = <<>>
    /\ ret = NotCalled
    /\ panic = ""
    /\ widths = <<>>

SpecTransposed == TransposedInit /\ [][TwinNext]_vars

(* ------------------------- the Divider by itself ----------------------- *)

DivSizes == (1..MaxDivSide) \X (1..MaxDivSide)

\* The value of ret before the first call of Divider::next.
WidthNotCalled == [some |-> FALSE, width |-> -1]

\* Divider { remaining: major, minor }, for size = [major, minor]; the
\* Divider is the field arb.divider, ret is the latest result of its next().
DividerInit ==
  \E sz \in DivSizes :
    /\ size = sz
    /\ arb = [NoArb EXCEPT !.divider = [remaining |-> sz[1], minor |-> sz[2]]]
    /\ widths = <<>>
    /\ ret = WidthNotCalled
    /\ panic = ""
    /\ core = NoCore
    /\ out = <<>>
    /\ twin = NoTwin

\* One call of Divider::next.
DividerNext ==
  /\ panic = ""
  /\ \E r \in {divider_next(arb.divider)} :
       /\ arb' = [arb EXCEPT !.divider = r.d]
       /\ ret' = r.ret
       /\ panic' = r.panic
       /\ widths' = IF r.panic = "" /\ r.ret.some
                     THEN Append(widths, r.ret.width) ELSE widths
  /\ UNCHANGED <<size, core, out, twin>>

DividerNextRel == DividerNext

SpecDivider == DividerInit /\ [][DividerNextRel]_vars

\* The wrapper keeps asking its Divider for the next width.
FairSpecDivider == SpecDivider /\ WF_vars(DividerNext)

(* ------------------------- division_l1 by itself ----------------------- *)

\* A side n to split; ret holds the side as [n], out the calls made so far
\* as pairs [side, division_l1(side)].
DivisionInit ==
  \E n \in 2..MaxSplitSide :
    /\ size = <<n, n>>
    /\ ret = <<n>>
    /\ out = <<>>
    /\ panic = ""
    /\ core = NoCore
    /\ arb = NoArb
    /\ widths = <<>>
    /\ twin = NoTwin

\* division_l1 is called on the side, and the caller goes on with one of
\* the two parts, l1 or side - l1, as the re-descent does for each axis
\* (core.rs 523-530).  On a side of 1 the u32 subtraction in division_l1
\* overflows.
DivisionSplit ==
  /\ panic = ""
  /\ IF DivisionL1Overflows(ret[1])
     THEN panic' = "overflow" /\ UNCHANGED <<ret, out>>
     ELSE \E l1 \in {division_l1(ret[1])} :
            /\ out' = Append(out, <<ret[1], l1>>)
            /\ IF ret[1] < l1
               THEN panic' = "overflow" /\ ret' = ret
               ELSE /\ panic' = ""
                    /\ \E part \in {l1, ret[1] - l1} : ret' = <<part>>
  /\ UNCHANGED <<size, core, arb, widths, twin>>

SpecDivision == DivisionInit /\ [][DivisionSplit]_vars

(* ------------------------------ properties ----------------------------- *)

W == size[1]

H == size[2]

Grid == (0..(W - 1)) \X (0..(H - 1))

Emitted == {out[i] : i \in 1..Len(out)}

\* Both sides at least 2: the sizes the scan subdivides.
Regular == W >= 2 /\ H >= 2

Exhausted == ret = None /\ panic = ""

Abs(x) == IF x < 0 THEN -x ELSE x

\* Exactly one component differs, and it differs by exactly 1.
RookAdjacent(p, q) ==
  /\ (p[1] # q[1]) # (p[2] # q[2])
  /\ Abs(p[1] - q[1]) + Abs(p[2] - q[2]) = 1

NoRepeat == Cardinality(Emitted) = Len(out)

AllAdjacent == \A i \in 1..(Len(out) - 1) : RookAdjacent(out[i], out[i + 1])

AllInGrid == \A i \in 1..Len(out) : out[i] \in Grid

(* ---------------------------- core engine ------------------------------ *)

\* C1 (coverage, core engine): for every size with both sides >= 2 the scan
\* runs without a panic, never returns a cell twice, and when next() has
\* returned None the returned cells are exactly the cells of [0,W) x [0,H).
CoreCoverage ==
  Regular => /\ panic = ""
             /\ NoRepeat
             /\ (ret = None => Emitted = Grid)

CoreCoverageWitness ==
  /\ size = <<7, 6>> /\ Exhausted /\ Emitted = Grid /\ Len(out) = 42

\* C2 (adjacency, core engine): for every size with both sides >= 2, any two
\* consecutively returned coordinates differ in exactly one component, by
\* exactly 1.
CoreAdjacency == Regular => AllAdjacent

CoreAdjacencyWitness ==
  /\ size = <<9, 10>> /\ core.done /\ Len(out) = 90 /\ AllAdjacent

\* C3 (boundedness, core engine): for every size with both sides >= 2, every
\* returned coordinate [x, y] has 0 <= x < W and 0 <= y < H.
CoreBounded == Regular => AllInGrid

CoreBoundedWitness ==
  /\ size = <<5, 11>> /\ Len(out) = 55 /\ out[55] \in Grid

\* C4 (exact length and termination, core engine): for every size with both
\* sides >= 2, next() never returns more than W*H coordinates, it has
\* returned exactly W*H of them when it returns None, and a consumer that
\* keeps calling next() does get None after finitely many calls.
CoreExactLength ==
  /\ [](Regular => /\ panic = ""
                   /\ Len(out) <= W * H
                   /\ (ret = None => Len(out) = W * H /\ core.done))
  /\ [](Regular => <>(ret = None))

CoreExactLengthWitness ==
  /\ size = <<7, 5>> /\ Exhausted /\ core.done /\ Len(out) = 35

\* C8 (zero-area input, core engine): constructing the engine with W = 0 or
\* H = 0 succeeds, and every next() on it returns None.
CoreZeroAreaEmpty ==
  (W = 0 \/ H = 0) => /\ panic = ""
                      /\ out = <<>>
                      /\ ret \in {NotCalled, None}

\* C9 (unit side, core engine): a size with a side of length exactly 1 and
\* the other side N >= 1 is accepted, and the scan returns the N cells of
\* the line in order from [0,0], one step along the long axis at a time.
CoreUnitSideLine ==
  ((W = 1 /\ H >= 1) \/ (H = 1 /\ W >= 1)) =>
     /\ panic = ""
     /\ \A i \in 1..Len(out) :
          out[i] = IF H = 1 THEN <<i - 1, 0>> ELSE <<0, i - 1>>
     /\ (ret = None => Len(out) = W * H)

\* The sizes whose curves the crate documentation draws (lib.rs 23-39).
DocLeaveSizes == {<<6, 7>>, <<4, 3>>}

\* out is a complete scan that leaves at the bottom-right corner.
LeavesBottomRight == ret = None => out[Len(out)] = <<W - 1, 0>>

StartsAtOrigin == Len(out) >= 1 => out[1] = <<0, 0>>

\* C12 (documented leave-point): the core scan of [6,7] starts at [0,0] and
\* the last coordinate it returns is the bottom-right corner [5,0]; the
\* core scan of [4,3] ends at [3,0].
CoreDocLeavePoint ==
  size \in DocLeaveSizes => /\ panic = ""
                            /\ StartsAtOrigin
                            /\ LeavesBottomRight

\* C19 (leave-point of even-width scans): for every even W >= 2 and every
\* H >= 2 the core scan of [W,H] returns [0,0] first and [W-1, 0] last.
CoreEvenWidthLeavePoint ==
  (Regular /\ W % 2 = 0) => /\ panic = ""
                            /\ StartsAtOrigin
                            /\ LeavesBottomRight

\* The block of level num_levels - 2 the scan is in was reached by the
\* re-descent of next(), not set up by the constructor: a level above it has
\* moved on to its second subblock or further.
ReDescended ==
  /\ Regular /\ panic = "" /\ ~core.done
  /\ \E j \in 0..(core.num_levels - 3) : core.level_states[j].progress > 0

NewLeafSize == core.level_states[core.num_levels - 2].size

\* The pattern `bb_curve_type` chosen for that block at lines 603-641: it is
\* stored in the level when the block is extra-subdivided, and is the
\* pattern being scanned otherwise.
NewLeafType ==
  IF core.last_level = core.num_levels - 1
  THEN core.level_states[core.num_levels - 2].curve_type
  ELSE core.bb_curve_type

\* The patterns SCANNING_TYPE holds for the direction of the block that
\* follows, over all entry corners.
TablePatterns ==
  With(NextBlockDir(core.level_states, core.num_levels - 3), LAMBDA nd :
    {ScanningType(nd.next_dir_sign, c, nd.next_dir) : c \in 0..3})

\* The arm of `match even_flags` (lines 603-641) taken for the block.
NewLeafArm == EvenFlags(NewLeafSize)

ArbCoverage ==
  Regular => /\ panic = ""
             /\ NoRepeat
             /\ (ret = None => Emitted = Grid)

\* C6 (adjacency across seams, arb wrapper): for every size with both sides
\* >= 2, any two consecutively returned coordinates differ in exactly one
\* component, by exactly 1, the last coordinate of one segment and the first
\* of the next included.
ArbAdjacency == Regular => AllAdjacent

\* C7 (boundedness, arb wrapper): for every size with both sides >= 2
\* (e.g. [11, 42]), every returned global coordinate [x, y] has 0 <= x < W
\* and 0 <= y < H.
ArbBounded == Regular => AllInGrid

ArbBoundedWitness ==
  /\ size = <<11, 42>> /\ arb.pos > 0 /\ arb.major_axis = 1
  /\ Exhausted /\ Len(out) = 462

\* C10 (zero-area input, arb wrapper): constructing the wrapper with W = 0
\* or H = 0 succeeds, and every next() on it returns None.
ArbZeroAreaEmpty ==
  (W = 0 \/ H = 0) => /\ panic = ""
                      /\ out = <<>>
                      /\ ret \in {NotCalled, None}

(* ----------------------- two iterators side by side -------------------- *)

IsPrefix(a, b) == Len(a) <= Len(b) /\ \A i \in 1..Len(a) : a[i] = b[i]

\* Iterator `late` has made fewer successful calls than `early`: it has not
\* ended, and what it returned is the beginning of what `early` returned.
Behind(late, early) ==
  Len(late.out) < Len(early.out) =>
     /\ late.panic = ""
     /\ late.nones = 0
     /\ IsPrefix(late.out, early.out)

\* The two iterators have gone through the same calls.
SameCalls(a, b) ==
  /\ Len(a.out) = Len(b.out)
  /\ a.nones = b.nones
  /\ a.ret = b.ret
  /\ (a.panic = "") = (b.panic = "")

StorageLen(storage) == Cardinality(DOMAIN storage)

\* C13 (undersized storage): HilbertScanCore::with_level_state_storage on a
\* buffer of fewer than num_levels_for_size(size) slots panics in the
\* constructor, and the consumer never gets a coordinate (nor a None) from
\* such an engine.
UndersizedStorageFatal ==
  \A i \in 1..2 :
    (/\ twin.kind = "core"
     /\ Regular
     /\ StorageLen(twin.inst[i].storage) < num_levels_for_size(size))
    => /\ twin.inst[i].panic = "slice"
       /\ twin.inst[i].out = <<>>
       /\ twin.inst[i].ret = NotCalled

UndersizedStorageFatalWitness ==
  /\ twin.kind = "core" /\ size = <<5, 4>>
  /\ twin.inst[2].storage = ShortStorage(2)
  /\ num_levels_for_size(size) = 3
  /\ twin.inst[2].panic = "slice"
  /\ twin.inst[1].ret = None /\ Len(twin.inst[1].out) = 20

\* Two iterators agree on everything but the contents of their buffers.
SameButStorage(a, b) ==
  [a EXCEPT !.storage = <<>>, !.core.level_states = <<>>]
    = [b EXCEPT !.storage = <<>>, !.core.level_states = <<>>]

\* C14 (uninitialized storage): an iterator built on a buffer with any
\* contents (arbitrary values, or the level states an earlier engine left
\* in it) that has enough slots returns the same sequence as the one built
\* by new() on a default buffer, and after the same calls the two agree on
\* every field outside the buffer.
StorageContentsIrrelevant ==
  (/\ twin.inst[2].storage # DefaultStorage
   /\ Regular => StorageLen(twin.inst[2].storage) >= num_levels_for_size(size))
  => /\ Behind(twin.inst[1], twin.inst[2])
     /\ Behind(twin.inst[2], twin.inst[1])
     /\ (SameCalls(twin.inst[1], twin.inst[2])
           => SameButStorage(twin.inst[1], twin.inst[2]))

StorageContentsIrrelevantWitness ==
  /\ twin.kind = "arb" /\ size = <<6, 4>>
  /\ twin.inst[2].storage = JunkStorage(<<9, 1>>, 7, 3)
  /\ twin.inst[1].arb.pos = 4 /\ twin.inst[2].arb.pos = 4
  /\ twin.inst[1].ret = None /\ twin.inst[2].ret = None
  /\ Len(twin.inst[2].out) = 24
  /\ twin.inst[1].out = twin.inst[2].out
  /\ twin.inst[1].core.level_states # twin.inst[2].core.level_states

\* C16 (fused): once next() has returned None on a HilbertScanCore or an
\* ArbHilbertScanCore, every later call returns None as well and no
\* further coordinate is returned.
ExhaustionSticky ==
  [][\A i \in 1..2 :
       (twin.inst[i].ret = None /\ twin.inst[i].panic = "")
         => /\ twin'.inst[i].ret = None
            /\ twin'.inst[i].panic = ""
            /\ twin'.inst[i].out = twin.inst[i].out]_vars

ExhaustionStickyWitness ==
  /\ twin.kind = "arb" /\ size = <<6, 4>>
  /\ twin.inst[1].nones = 2 /\ twin.inst[1].ret = None
  /\ twin.inst[1].core.done /\ twin.inst[1].arb.divider.remaining = 0
  /\ Len(twin.inst[1].out) = 24

(* ------------------------------- segments ------------------------------ *)

Max2(a, b) == IF a >= b THEN a ELSE b

\* long side / short side of rectangle a is at most that of rectangle b.
NoLessSquare(a, b) ==
  Max2(a[1], a[2]) * Min2(b[1], b[2]) <= Max2(b[1], b[2]) * Min2(a[1], a[2])

\* The wrapper has cut the rectangle into more than one segment.
Divided ==
  Len(widths) > 1 \/ (Len(widths) = 1 /\ arb.divider.remaining > 0)

\* C15 (bounded aspect ratio): when the wrapper divides [W,H] into more
\* than one segment, every segment [w, minor] it scans is at least as close
\* to square as [W,H]: max(w,minor)/min(w,minor) <= max(W,H)/min(W,H).
ArbAspectBounded ==
  (Regular /\ Divided) =>
     \A i \in 1..Len(widths) :
        (widths[i] >= 2 /\ (i = Len(widths) => panic = ""))
           => NoLessSquare(<<widths[i], arb.divider.minor>>, size)

(* ------------------------------- Divider ------------------------------- *)

RECURSIVE SumOf(_)
SumOf(ws) == IF ws = <<>> THEN 0 ELSE Head(ws) + SumOf(Tail(ws))

\* C17 (Divider exactness): for major >= 1 and minor >= 1, Divider::next
\* never panics; every width it returns is at least 1 and at most the
\* length that remained; the widths returned and the remaining length add
\* up to major; it returns None only when remaining == 0, the widths then
\* add up to exactly major; and it does return None after finitely many
\* calls.
DividerExact ==
  /\ [](/\ panic = ""
        /\ arb.divider.remaining >= 0
        /\ \A i \in 1..Len(widths) : widths[i] >= 1
        /\ SumOf(widths) + arb.divider.remaining = size[1]
        /\ (ret = NoWidth => arb.divider.remaining = 0 /\ SumOf(widths) = size[1]))
  /\ [][IF arb.divider.remaining = 0
        THEN ret' = NoWidth /\ widths' = widths
        ELSE /\ ret'.some
             /\ ret'.width <= arb.divider.remaining
             /\ widths' = Append(widths, ret'.width)]_vars
  /\ <>(ret = NoWidth)

DividerExactWitness ==
  /\ size = <<40, 7>> /\ widths = <<6, 6, 8, 6, 8, 6>>
  /\ ret = NoWidth /\ arb.divider.remaining = 0

\* C18 (Divider parity): every width the Divider returns except the last
\* one is even; an odd width is the last one, and it was returned with
\* count == 1 (it is the whole remaining length).
DividerParity ==
  \A i \in 1..Len(widths) :
     widths[i] % 2 = 1 =>
        /\ i = Len(widths)
        /\ arb.divider.remaining = 0
        /\ division_count(widths[i], arb.divider.minor) = 1

DividerParityWitness ==
  /\ size = <<9, 4>> /\ widths = <<4, 5>> /\ arb.divider.remaining = 0

(* ------------------------- inside the core engine ---------------------- *)

NumLevels == core.num_levels

Levels == core.level_states

\* The leaf being scanned was installed by next() (lines 498-511 or
\* 660-674), not by the constructor and not as the helper row: a level above
\* it has moved on from its first subblock.
InstalledByNext ==
  /\ Regular /\ panic = "" /\ ~core.done
  /\ \E j \in 0..(core.last_level - 1) : Levels[j].progress > 0

\* [primary extent, secondary extent] of the leaf being scanned.
LeafExtent ==
  IF curve_primary_axis(core.bb_curve_type) # 0
  THEN <<Levels[core.last_level].size[2], Levels[core.last_level].size[1]>>
  ELSE Levels[core.last_level].size

\* C21 (even primary extent): for every size with both sides >= 2, no
\* debug assertion of next() fails; every leaf next() installs has an even,
\* nonzero extent along its primary axis and a nonzero extent along its
\* secondary axis, and bb_progress is set to these two extents when the
\* leaf is installed.
LeafExtentEven ==
  /\ [](Regular => panic # "debug_assert")
  /\ [](InstalledByNext => /\ LeafExtent[1] % 2 = 0
                           /\ LeafExtent[1] > 0
                           /\ LeafExtent[2] > 0
                           /\ core.bb_progress[1] <= LeafExtent[1]
                           /\ core.bb_progress[2] <= LeafExtent[2])
  /\ [][(InstalledByNext' /\ Levels' # Levels)
          => core'.bb_progress = LeafExtent']_vars

LeafExtentEvenWitness ==
  /\ size = <<13, 7>> /\ InstalledByNext
  /\ core.last_level = 2 /\ Levels[1].progress = 2
  /\ LeafExtent = <<2, 1>> /\ core.bb_progress = LeafExtent

\* C22 (no unsigned underflow): for every size with both sides >= 2, no
\* subtraction of the constructor or of next() underflows: the cursor
\* stays at coordinates >= 0, both components of bb_progress are >= 1
\* when next() decrements them, and every level size is >= 0.
NoUnderflow ==
  Regular =>
     /\ panic # "overflow"
     /\ core.position[1] >= 0 /\ core.position[2] >= 0
     /\ (~core.done => core.bb_progress[1] >= 1 /\ core.bb_progress[2] >= 1)
     /\ \A i \in 0..core.last_level :
           Levels[i].size[1] >= 0 /\ Levels[i].size[2] >= 0

NoUnderflowWitness ==
  /\ size = <<11, 6>> /\ Len(out) = 21 /\ panic = "" /\ InstalledByNext
  /\ core.bb_curve_type = 4 /\ curve_primary_negative(core.bb_curve_type) # 0
  /\ core.position = <<3, 2>> /\ core.bb_progress = <<1, 1>>

\* The induction entry for level i: the pattern its parent's table row
\* gives for the subblock the parent is at.
InducedType(i) ==
  CURVE_INDUCTION_TABLE[Levels[i - 1].curve_type][Levels[i - 1].progress + 1]

\* C23 (curve-type induction): between steps, every level i with
\* 0 < i < last_level has the curve type that CURVE_INDUCTION_TABLE gives
\* for its parent's curve type and progress.
InductionBelowLeaf ==
  (Regular /\ panic = "" /\ ~core.done) =>
     \A i \in 1..(core.last_level - 1) :
        Levels[i].curve_type = InducedType(i)

\* The part of the induction relation that does hold between steps: the
\* levels 0 < i < num_levels - 2, which only the constructor's loop and the
\* re-descent write. Level num_levels - 2 is overwritten with the scanning
\* pattern of the block (core.rs 289, 649).
InductionBelowBlock ==
  (Regular /\ panic = "" /\ ~core.done) =>
     \A i \in 1..(NumLevels - 3) :
        Levels[i].curve_type = InducedType(i)

InductionBelowBlockWitness ==
  /\ size = <<9, 8>> /\ panic = "" /\ ~core.done /\ NumLevels = 4
  /\ Levels[0].progress = 2 /\ Levels[1].progress = 1
  /\ Levels[1].curve_type = CURVE_INDUCTION_TABLE[0][3]
  /\ Levels[2].curve_type = InducedType(2)

\* C24 (progress range): whenever next() has returned and the scan is not
\* done, every level above the leaf has progress in 0..3; a level that
\* leaves progress 3 in a step that does not end the scan (it reached 4
\* in the ascent loop) has progress 0 when next() returns.
ProgressInRange ==
  /\ []((Regular /\ panic = "" /\ ~core.done) =>
          \A i \in 0..(core.last_level - 1) : Levels[i].progress \in 0..3)
  /\ [][(Regular /\ panic' = "" /\ ~core'.done) =>
          \A j \in 0..(NumLevels - 2) :
             (Levels[j].progress = 3 /\ Levels'[j].progress # 3)
                => Levels'[j].progress = 0]_vars

ProgressInRangeWitness ==
  /\ size = <<8, 8>> /\ panic = "" /\ ~core.done /\ NumLevels = 4
  /\ Len(out) = 16 /\ core.last_level = 2
  /\ Levels[0].progress = 1 /\ Levels[1].progress = 0

\* C25 (exact storage suffices): num_levels is floor(log2(min(W, H))) + 1,
\* that is 2^(num_levels-1) <= min(W, H) < 2^num_levels, and at most 32;
\* the constructor and next() leave every slot with index >= num_levels
\* as it was, and last_level is num_levels - 2 or num_levels - 1.
ExactStorageSuffices ==
  /\ \A k \in 1..30 : num_levels_for_size(<<Pow2(k) + 1, Pow2(k)>>) = k + 1
  /\ (Regular /\ panic = "") =>
        /\ NumLevels = num_levels_for_size(size)
        /\ Pow2(NumLevels - 1) <= Min2(W, H)
        /\ Min2(W, H) < Pow2(NumLevels)
        /\ NumLevels <= LevelStorageLen
        /\ core.last_level \in {NumLevels - 2, NumLevels - 1}
        /\ \A i \in NumLevels..(LevelStorageLen - 1) :
              Levels[i] = DefaultStorage[i]

ExactStorageSufficesWitness ==
  /\ size = <<13, 7>> /\ panic = "" /\ Len(out) = 30
  /\ NumLevels = 3 /\ core.last_level = 2
  /\ Levels[2].size # <<0, 0>> /\ Levels[3] = DefaultStorage[3]

\* The first block as the constructor leaves it in level num_levels - 2
\* (helper row removed), its pattern, and its two extents.
FirstBlockLevel ==
  with_level_state_storage(DefaultStorage, size)
     .e.level_states[num_levels_for_size(size) - 2]

\* [area, primary axis, primary extent, secondary extent] of the first block.
FirstBlockShape ==
  With(FirstBlockLevel, LAMBDA l :
    With(curve_primary_axis(l.curve_type), LAMBDA pax :
      [area |-> l.size[1] * l.size[2], pax |-> pax,
       pri |-> l.size[pax + 1], sec |-> l.size[(1 - pax) + 1]]))

OddSize == W % 2 = 1 \/ H % 2 = 1

\* The helper row of a first block of shape fb: pending exactly until the
\* call that returns the block's last cell; then the row next to the block
\* along its primary axis, fb.sec cells long; then no cell of the block or
\* the row again.
HelperRowAfter(fb) ==
  /\ core.bb_helper_row <=> Len(out) < fb.area
  /\ \A k \in 1..Len(out) :
        /\ k <= fb.area => out[k][fb.pax + 1] < fb.pri
        /\ (k > fb.area /\ k <= fb.area + fb.sec) =>
              /\ out[k][fb.pax + 1] = fb.pri
              /\ out[k][(1 - fb.pax) + 1] = k - fb.area - 1
        /\ k > fb.area + fb.sec =>
              \/ out[k][fb.pax + 1] > fb.pri
              \/ out[k][(1 - fb.pax) + 1] >= fb.sec
  /\ (Len(out) >= fb.area /\ Len(out) < fb.area + fb.sec) =>
        /\ core.bb_progress = <<1, fb.area + fb.sec - Len(out)>>
        /\ core.last_level = NumLevels - 2

\* C26 (helper row): with both sides even no helper row is pending or
\* emitted. With an odd side the helper row is pending exactly until the
\* call that returns the last cell of the first block (all four subblocks
\* of an extra-subdivided one), the cells emitted right after it are the
\* row next to the first block along its primary axis, as long as the
\* block's secondary extent, and the engine then leaves the first block
\* and never has a helper row pending again.
HelperRowOnce ==
  (Regular /\ panic = "") =>
     IF OddSize THEN With(FirstBlockShape, LAMBDA fb : HelperRowAfter(fb))
     ELSE ~core.bb_helper_row

HelperRowOnceWitness ==
  /\ size = <<13, 7>> /\ panic = "" /\ FirstBlockLevel.size = <<4, 3>>
  /\ Len(out) = 15 /\ ~core.bb_helper_row
  /\ out[13] = <<4, 0>> /\ out[15] = <<4, 2>>

\* The engine is scanning the helper row: the row has been installed and
\* no level above the first block has moved on yet.
InHelperRow ==
  /\ OddSize /\ ~core.bb_helper_row /\ ~core.done
  /\ \A j \in 0..(NumLevels - 3) : Levels[j].progress = 0

\* The rectangle the zigzag is scanning.
LeafSize == Levels[core.last_level].size

\* The block of level num_levels - 2 and the subblock of it at address a
\* (bit 1 of a: the X half, bit 0: the Y half).
BlockLevel == Levels[NumLevels - 2]

ExtraSub(a) ==
  extra_division_subblock_size(BlockLevel.size, a, BlockLevel.curve_type)

\* The address of the subblock the block is at.
ExtraAddress ==
  BitAnd(ShiftR(CURVE_ADDRESS_TABLE[BlockLevel.curve_type],
                BlockLevel.progress * 2), 3)

\* C27 (leaf size and extra subdivision): every rectangle scanned with the
\* zigzag has a shorter side of 1..3; a block of level num_levels - 2 with
\* both sides >= 3 is never scanned directly; when the engine is in a
\* subblock, the block has both sides >= 3, the subblock is the one at the
\* address of the block's progress, the four addresses of the block's
\* pattern are distinct, and the four subblocks have nonzero sides and form
\* a 2 x 2 grid whose columns and rows add up to the block's sides.
LeafSizeSmall ==
  (Regular /\ panic = "" /\ ~core.done) =>
     /\ ~InHelperRow =>
          /\ Min2(LeafSize[1], LeafSize[2]) \in 1..3
          /\ core.last_level = NumLevels - 2
                => ~(LeafSize[1] >= 3 /\ LeafSize[2] >= 3)
     /\ core.last_level = NumLevels - 1 =>
          /\ BlockLevel.size[1] >= 3 /\ BlockLevel.size[2] >= 3
          /\ BlockLevel.progress \in 0..3
          /\ LeafSize = ExtraSub(ExtraAddress)
          /\ {BitAnd(ShiftR(CURVE_ADDRESS_TABLE[BlockLevel.curve_type],
                             2 * p), 3) : p \in 0..3} = 0..3
          /\ \A a \in 0..3 :
                /\ ExtraSub(a)[1] > 0 /\ ExtraSub(a)[2] > 0
                /\ ExtraSub(a)[1] = ExtraSub(BitXor(a, 1))[1]
                /\ ExtraSub(a)[2] = ExtraSub(BitXor(a, 2))[2]
                /\ ExtraSub(a)[1] + ExtraSub(BitXor(a, 2))[1]
                      = BlockLevel.size[1]
                /\ ExtraSub(a)[2] + ExtraSub(BitXor(a, 1))[2]
                      = BlockLevel.size[2]

LeafSizeSmallWitness ==
  /\ size = <<13, 7>> /\ panic = "" /\ ~core.done /\ ~InHelperRow
  /\ core.last_level = NumLevels - 1 /\ BlockLevel.size = <<5, 4>>
  /\ BlockLevel.progress = 2 /\ LeafSize = ExtraSub(ExtraAddress)

\* C28 (split well-formedness): every side the constructor's loop or the
\* re-descent splits, the sides of levels 0 .. num_levels - 3, is >= 4, so
\* that log2_floor of it is >= 1; its l1 is even with 0 < l1 < side and
\* the remainder side - l1 is >= 2.
SplitWellFormed ==
  (Regular /\ panic = "") =>
     \A i \in 0..(NumLevels - 3) : \A a \in 1..2 :
        With(Levels[i].size[a], LAMBDA n :
          /\ n >= 4
          /\ ~DivisionL1Overflows(n)
          /\ division_l1(n) % 2 = 0
          /\ 0 < division_l1(n) /\ division_l1(n) < n
          /\ n - division_l1(n) >= 2)

SplitWellFormedWitness ==
  /\ size = <<11, 9>> /\ panic = "" /\ ~core.done /\ NumLevels = 4
  /\ Levels[0].progress = 3 /\ Levels[1].progress = 2
  /\ Levels[1].size[1] >= 4
  /\ Levels[2].size[1] \in {division_l1(Levels[1].size[1]),
                             Levels[1].size[1] - division_l1(Levels[1].size[1])}

\* C29 (segment engines are never empty): for every size with both sides
\* >= 2 the wrapper holds, between steps, a successfully constructed inner
\* engine over [len, minor]; and whenever a call cuts off a further
\* segment, the engine over it is constructed without a panic and the call
\* returns a coordinate (the unwrap of arb.rs 133 does not fail).
SegmentEngineLive ==
  /\ [](Regular => /\ panic \notin {"assert", "slice", "unwrap"}
                   /\ core.size = <<arb.len, arb.divider.minor>>
                   /\ core.num_levels = num_levels_for_size(core.size))
  /\ [][(Regular /\ Len(widths') > Len(widths))
          => (panic' = "" /\ ret' # None)]_vars

Swapped(p) == IF Len(p) = 2 THEN <<p[2], p[1]>> ELSE p

\* What the wrapper b (a, one call earlier) has just returned is the local
\* coordinate of its inner engine, the position the engine stood at before
\* the call or the origin of a fresh segment, moved along the major axis
\* by the widths of the earlier segments.
OffsetByEarlierSegments(a, b, major) ==
  LET local == IF b.arb.divider = a.arb.divider
               THEN a.core.position ELSE <<0, 0>>
      earlier == major - b.arb.divider.remaining - b.arb.len
  IN  /\ b.ret[b.arb.major_axis + 1] = local[1] + earlier
      /\ b.ret[(1 - b.arb.major_axis) + 1] = local[2]

\* Iterator a has ended, by None or by a panic: b has not returned more
\* coordinates than a and has not ended the other way.
EndsNoLater(a, b) ==
  (a.panic # "" \/ a.nones > 0) =>
     /\ Len(b.out) <= Len(a.out)
     /\ a.panic # "" => (b.nones = 0 /\ b.panic \in {"", a.panic})
     /\ a.nones > 0 => b.panic = ""

\* C30 (transposition of tall rectangles): for W < H the wrapper over
\* [W, H] returns, call by call, what the wrapper over [H, W] returns with
\* the two components swapped, and ends or panics at the same call; every
\* coordinate either returns is the inner engine's local coordinate with
\* the summed widths of the earlier segments added along the major axis
\* (Y for [W, H], X for [H, W]) and the other component unchanged.
TransposedScan ==
  /\ [](/\ \A k \in 1..Min2(Len(twin.inst[1].out), Len(twin.inst[2].out)) :
             twin.inst[1].out[k] = Swapped(twin.inst[2].out[k])
         /\ EndsNoLater(twin.inst[1], twin.inst[2])
         /\ EndsNoLater(twin.inst[2], twin.inst[1])
         /\ twin.inst[1].arb.major_axis = 1
         /\ twin.inst[2].arb.major_axis = 0)
  /\ [][\A i \in 1..2 :
          (/\ twin'.inst[i] # twin.inst[i]
           /\ twin'.inst[i].panic = ""
           /\ twin'.inst[i].ret # None)
            => OffsetByEarlierSegments(twin.inst[i], twin'.inst[i], size[2])]_vars

TransposedScanWitness ==
  /\ size = <<3, 7>> /\ twin.inst[1].panic = "" /\ twin.inst[2].panic = ""
  /\ Len(twin.inst[1].out) = 21 /\ Len(twin.inst[2].out) = 21
  /\ twin.inst[1].arb.pos > 0 /\ twin.inst[2].arb.pos > 0
  /\ twin.inst[1].out[21] = Swapped(twin.inst[2].out[21])
  /\ twin.inst[1].out[21][1] # twin.inst[1].out[21][2]

(* ------------------------------ the tables ----------------------------- *)

\* The address of the i-th subblock of a block of curve type g, and the
\* corners where a curve of type g starts and ends.
SubAddress(g, i) == BitAnd(ShiftR(CURVE_ADDRESS_TABLE[g], 2 * i), 3)

StartCorner(g) == SubAddress(g, 0)

EndCorner(g) == SubAddress(g, 3)

\* C31 (table continuity): for every curve type g in 0..7 the four subblock
\* addresses are a permutation of 0..3; consecutive subblocks differ in
\* exactly one address bit d, the curve induced in subblock i + 1 starts at
\* the end corner of the curve induced in subblock i XOR d, the first
\* child starts at g's start corner and the last ends at g's end corner;
\* and in every scan with both sides >= 2 the debug assertions on adr_rel
\* hold: every level above the leaf that has a subblock left moves to it
\* along exactly one axis.
TableContinuity ==
  /\ \A g \in 0..7 :
        /\ {SubAddress(g, i) : i \in 0..3} = 0..3
        /\ \A i \in 0..2 :
              With(BitXor(SubAddress(g, i), SubAddress(g, i + 1)), LAMBDA d :
                /\ d \in {1, 2}
                /\ StartCorner(CURVE_INDUCTION_TABLE[g][i + 2])
                     = BitXor(EndCorner(CURVE_INDUCTION_TABLE[g][i + 1]), d))
        /\ StartCorner(CURVE_INDUCTION_TABLE[g][1]) = StartCorner(g)
        /\ EndCorner(CURVE_INDUCTION_TABLE[g][4]) = EndCorner(g)
        /\ EndCorner(g) = curve_end_point(g)
  /\ Regular => panic # "debug_assert"
  /\ (Regular /\ panic = "" /\ ~core.done) =>
        \A i \in 0..(core.last_level - 1) :
           Levels[i].progress < 3 =>
              BitAnd(AdrRel(Levels[i].curve_type, 2 * Levels[i].progress), 3)
                 \in {1, 2}

\* The [8,8] scan has left the first 4 x 4 subblock (type 1, ending at its
\* corner 0b01) along Y and stands at the start corner of the second.
TableContinuityWitness ==
  /\ size = <<8, 8>> /\ panic = "" /\ Len(out) = 16
  /\ Levels[0].progress = 1 /\ Levels[1].progress = 0
  /\ SubAddress(0, 0) = 0 /\ SubAddress(0, 1) = 1
  /\ out[16] = <<0, 3>> /\ core.position = <<0, 4>>

(* ----------------------------- division_l1 ----------------------------- *)

\* floor(log2 n) for n >= 1: the L with 2^L <= n < 2^(L+1).
FloorLog2(n) == CHOOSE L \in 0..30 : Pow2(L) <= n /\ n < 2 * Pow2(L)

\* The value the claim gives for division_l1(n), n >= 2.
HalfOrWhole(n) ==
  With(FloorLog2(n), LAMBDA L :
    IF (n \div Pow2(L - 1)) % 2 = 0 THEN Pow2(L - 1) ELSE Pow2(L))

\* C32 (division_l1 value): every call of division_l1 on a side n >= 2
\* returns 2^(L-1) if bit L-1 of n is clear and 2^L if it is set, where
\* L = floor(log2 n); division_l1(18) = 8, division_l1(32) = 16, and on
\* 3 * 2^k, k >= 1, it returns 2^(k+1) (16 for 24), not 2^k.
DivisionL1Value ==
  /\ \A j \in 1..Len(out) :
        out[j][1] >= 2 /\ out[j][2] = HalfOrWhole(out[j][1])
  /\ (panic = "overflow") => ret[1] < 2
  /\ division_l1(18) = 8 /\ division_l1(32) = 16 /\ division_l1(24) = 16
  /\ \A k \in 1..28 : division_l1(3 * Pow2(k)) = Pow2(k + 1)

DivisionL1ValueWitness ==
  /\ size = <<24, 24>> /\ panic = "" /\ Len(out) = 2
  /\ out[1] = <<24, 16>> /\ out[2] = <<8, 4>> /\ ret = <<4>>

====
